---------------------------- MODULE Spec2Model ----------------------------
(***************************************************************************)
(* Share-state reconciliation (NoteManagement.getNotes) and upload         *)
(* coordination (SharePlugin.uploadNote / copyShareLink) of share-note.    *)
(*                                                                         *)
(* Strings that the code parses (share links) are sequences of tokens:     *)
(* the empty string is << >>, a share link is << ShareBase, id >>.         *)
(***************************************************************************)
EXTENDS Integers, Sequences, FiniteSets, TLC

\* ---------------------------------------------------------------- bounds
NumFiles == 2
MaxRemote == 2
MaxClock == 2

\* ------------------------------------------------------------ vocabulary
Ids == {"a", "b", "c"}
Stamps == {"t1"}
Paths == <<"n1.md", "n2.md", "n3.md", "n4.md">>
ShareBase == "https://share.note.sx"
NoPath == "<no path>"
Absent == "<absent>"

\* the vault the reconciliation is checked on, and the vault of the upload
\* coordinator: a menu file and an active document that may differ
ReconVault == {Paths[i] : i \in 1..NumFiles}
UploadVault == {Paths[1], Paths[2]}

\* app.vault.getMarkdownFiles(): the vault's documents in iteration order
InVault(fm, path) == path \in DOMAIN fm
getMarkdownFiles(fm) == SelectSeq(Paths, LAMBDA path : InVault(fm, path))

\* A frontmatter link field: has = FALSE is a missing field (undefined)
NoLinkField == [has |-> FALSE, link |-> <<>>]
LinkField(s) == [has |-> TRUE, link |-> s]
LinkFor(id) == <<ShareBase, id>>

\* The strings a user's frontmatter may hold in the link field
LinkStrings ==
  {<<>>, <<"garbage">>, <<"a">>} \cup {LinkFor(id) : id \in Ids}
LinkFields == {NoLinkField} \cup {LinkField(s) : s \in LinkStrings}

\* JS truthiness of metadata?.frontmatter?.[field]
Truthy(fld) == fld.has /\ fld.link # <<>>

\* parseExistingShareUrl: the identifier is the final path segment of a
\* recognised share link; any other string gives Absent
parseExistingShareUrl(url) ==
  IF Len(url) >= 2 /\ url[1] = ShareBase /\ url[Len(url)] \in Ids
  THEN url[Len(url)]
  ELSE Absent

RemoteItem(id, upd) == [id |-> id, updated |-> upd, path |-> NoPath]
RemoteItems == {RemoteItem(id, u) : id \in Ids, u \in Stamps}

RECURSIVE SeqsUpTo(_, _)
SeqsUpTo(S, n) ==
  IF n = 0 THEN {<<>>}
  ELSE LET shorter == SeqsUpTo(S, n - 1)
       IN shorter \cup {Append(s, x) : s \in {t \in shorter : Len(t) = n - 1}, x \in S}

\* what GET /v1/account/notes may answer
Responses == SeqsUpTo(RemoteItems, MaxRemote)

VARIABLES
  frontmatter,   \* path -> link field of the document's metadata block
  updated,       \* path -> the record's updated timestamp (0: never synced)
  mtime,         \* path -> time of the last change of the document's content
  now,           \* the clock
  active,        \* path of the document open in the workspace
  remoteIds,     \* ids of the shared resources the backend has created
  clipboard,     \* text on the system clipboard
  ops,           \* invocation slot -> the uploadNote() call suspended in it
  justDone,      \* the uploadNote() call that completed in the last step
  justCopy,      \* the copyShareLink() call made in the last step
  sharedNotes,   \* the array getNotes() returned last
  received,      \* the items as the backend sent them (before annotation)
  notesCall,     \* "none" | "ok" | "failed" | "raised": last getNotes() call
  settings,      \* this.settings: uid and apiKey
  stored,        \* the plugin's data on disk (loadData / saveData)
  loaded,        \* onload has run: the commands and the handler are registered
  apikeyEl,      \* this.settingsPage.apikeyEl
  justLoaded,    \* the onload that ran in the last step
  justHandled    \* the protocol handler call made in the last step

reconVars == <<sharedNotes, received, notesCall>>
settingsVars == <<settings, stored, loaded, apikeyEl, justLoaded, justHandled>>
docVars == <<frontmatter, updated, mtime, now>>
uploadVars == <<active, remoteIds, clipboard, ops, justDone, justCopy>>
vars == <<frontmatter, updated, mtime, now, active, remoteIds, clipboard, ops,
          justDone, justCopy, sharedNotes, received, notesCall, settings, stored, loaded,
          apikeyEl, justLoaded, justHandled>>

\* ------------------------------------- settings, onload, protocol handler

\* '' + Date.now() + Math.random(): the seeds two loads may draw
Seeds == {"seed1", "seed2", "seed3"}

\* hash(seed): a digest, never the empty string, different for different seeds
hash(seed) == <<"sha256", seed>>

\* DEFAULT_SETTINGS: no uid and no API key
DefaultSettings == [uid |-> <<>>, apiKey |-> <<>>]

\* the plugin's data on disk: nothing before the first saveData()
NoData == [has |-> FALSE, uid |-> <<>>, apiKey |-> <<>>]
Saved(s) == [has |-> TRUE, uid |-> s.uid, apiKey |-> s.apiKey]

\* loadSettings(): Object.assign({}, DEFAULT_SETTINGS, await this.loadData())
loadSettings(data) ==
  IF data.has THEN [uid |-> data.uid, apiKey |-> data.apiKey] ELSE DefaultSettings

\* the API key text field of the settings tab: built when the tab is shown
NoApikeyEl == [exists |-> FALSE, value |-> <<>>]
ApikeyEl(text) == [exists |-> TRUE, value |-> text]

\* mutant: a uid is minted on every load
onloadAlwaysMint(data, seed) ==
  LET loaded_ == loadSettings(data)
      minted == [loaded_ EXCEPT !.uid = hash(seed)]
  IN [settings |-> minted, stored |-> Saved(minted), minted |-> TRUE]

\* onload, up to the settings page: load the settings, and when they hold no
\* uid mint one and save
onload(data, seed) ==
  LET loaded_ == loadSettings(data)
  IN IF loaded_.uid = <<>>
     THEN LET minted == [loaded_ EXCEPT !.uid = hash(seed)]
          IN [settings |-> minted, stored |-> Saved(minted), minted |-> TRUE]
     ELSE [settings |-> loaded_, stored |-> data, minted |-> FALSE]

\* what the 'share-note' protocol handler is given
Keys == {<<>>, <<"key1">>, <<"key2">>}
ProtocolData == [action : {"share-note", "open"}, key : Keys]

\* the protocol handler callback: the new settings, the data on disk, the
\* text field, and whether it saved
handler(data, s, disk, el) ==
  IF data.action = "share-note" /\ data.key # <<>> /\ el.exists
  THEN LET s2 == [s EXCEPT !.apiKey = data.key]
       IN [settings |-> s2, stored |-> Saved(s2), el |-> ApikeyEl(data.key),
           saved |-> TRUE]
  ELSE [settings |-> s, stored |-> disk, el |-> el, saved |-> FALSE]

NoLoad == [ran |-> FALSE, minted |-> FALSE, seed |-> "<none>"]
NoDelivery ==
  [ran |-> FALSE, action |-> "<none>", key |-> <<>>, saved |-> FALSE,
   before |-> DefaultSettings, beforeDisk |-> NoData, elExisted |-> FALSE]

\* the settings of a plugin that has been loaded before
LoadedSettings == [uid |-> hash("seed1"), apiKey |-> <<>>]

\* --------------------------------------------------- SharePlugin (main.ts)

\* the invocation slots, and those the one-call-at-a-time specification uses
AllProcs == {"p1", "p2"}
Procs == {"p1"}
IdSeq == <<"a", "b", "c">>
Sentinel == "Unknown error"

\* values a rejected share() may carry into catch (e)
ErrUnknown == [hasMessage |-> TRUE, message |-> Sentinel]
ErrRequest == [hasMessage |-> TRUE, message |-> "Request failed"]
ThrownUndefined == [hasMessage |-> FALSE, message |-> "<undefined>"]
Thrown == {ErrUnknown, ErrRequest, ThrownUndefined}
NoThrow == [hasMessage |-> FALSE, message |-> "<none>"]
\* what reading e.message raises when e is undefined or null
TypeError == [hasMessage |-> TRUE, message |-> "Cannot read properties of undefined"]

\* Share-State Store read: absent when the link is missing or malformed
ReadRecord(fm, upd, file) ==
  IF Truthy(fm[file]) /\ parseExistingShareUrl(fm[file].link) # Absent
  THEN [exists |-> TRUE, id |-> parseExistingShareUrl(fm[file].link),
        link |-> fm[file].link, updated |-> upd[file]]
  ELSE [exists |-> FALSE, id |-> Absent, link |-> <<>>, updated |-> 0]

\* new Note(plugin): the note is taken from the workspace, no file is passed
NewNote(act) == [doc |-> act, isForceUpload |-> FALSE, isForceClipboard |-> FALSE]

\* mutant: the force-upload argument is dropped
PrepareNoteNeverForce(act, forceUpload, forceClipboard) ==
  [NewNote(act) EXCEPT !.isForceClipboard = forceClipboard]

\* mutant: every note is marked force-upload
PrepareNoteAlwaysForce(act, forceUpload, forceClipboard) ==
  [NewNote(act) EXCEPT !.isForceUpload = TRUE, !.isForceClipboard = forceClipboard]

\* uploadNote, up to the try: note.forceUpload() / note.forceClipboard()
PrepareNote(act, forceUpload, forceClipboard) ==
  LET note == NewNote(act)
      n1 == IF forceUpload THEN [note EXCEPT !.isForceUpload = TRUE] ELSE note
  IN IF forceClipboard THEN [n1 EXCEPT !.isForceClipboard = TRUE] ELSE n1

\* share() step 2: a record exists, no force, content not newer than updated
ShouldSkip(note, rec, mt) ==
  rec.exists /\ ~note.isForceUpload /\ mt <= rec.updated

\* what share() hands back to uploadNote: it resolves, or rejects with a
\* value; statusShown is whether share() left the in-progress indicator up
ShareOk == [ok |-> TRUE, thrown |-> NoThrow, statusShown |-> TRUE]
ShareThrew(e, shown) == [ok |-> FALSE, thrown |-> e, statusShown |-> shown]

\* mutant: every failure is shown to the user
AfterShareNotifyAll(res) ==
  IF res.ok
  THEN [notified |-> FALSE, statusShown |-> FALSE, outcome |-> "resolved",
        rejectedWith |-> NoThrow]
  ELSE [notified |-> TRUE, statusShown |-> FALSE, outcome |-> "resolved",
        rejectedWith |-> NoThrow]

\* uploadNote from the try on: await share(), the catch block, status.hide().
\* Reading e.message of a value without properties raises inside the catch
\* block, and the statement after the try is then never reached.
AfterShare(res) ==
  IF res.ok
  THEN [notified |-> FALSE, statusShown |-> FALSE, outcome |-> "resolved",
        rejectedWith |-> NoThrow]
  ELSE IF ~res.thrown.hasMessage
  THEN [notified |-> FALSE, statusShown |-> res.statusShown, outcome |-> "rejected",
        rejectedWith |-> TypeError]
  ELSE [notified |-> (res.thrown.message = Sentinel), statusShown |-> FALSE,
        outcome |-> "resolved", rejectedWith |-> NoThrow]

\* the id the backend gives a new shared resource
NextId(ids) == IdSeq[Cardinality(ids) + 1]

\* mutant: the record is written whatever the remote answered, with the id
\* the client expects when there is no answer to take it from
MetadataAfterShareAlways(fm, file, res, id) ==
  [fm EXCEPT ![file] = LinkField(LinkFor(IF res.ok THEN id ELSE IdSeq[1]))]

\* share() step 4: the Share-State Store write, on success only
MetadataAfterShare(fm, file, res, id) ==
  IF res.ok THEN [fm EXCEPT ![file] = LinkField(LinkFor(id))] ELSE fm

NoSlot == "<no slot>"

IdleOp ==
  [pc |-> "idle", doc |-> NoPath, target |-> NoPath, argForce |-> FALSE,
   forceUpload |-> FALSE, forceClipboard |-> FALSE, recId |-> Absent,
   current |-> FALSE, prev |-> "none", slot |-> NoSlot, shareCalls |-> 0,
   overlap |-> FALSE]

NoCall ==
  [kind |-> "none", doc |-> NoPath, target |-> NoPath, argForce |-> FALSE,
   forceUpload |-> FALSE, forceClipboard |-> FALSE,
   current |-> FALSE, prev |-> "none", uploads |-> 0, thrown |-> NoThrow,
   notified |-> FALSE, statusShown |-> FALSE, outcome |-> "none",
   rejectedWith |-> NoThrow, copied |-> <<>>, slot |-> NoSlot,
   shareCalls |-> 0, overlap |-> FALSE, written |-> <<>>]

\* the record of a completed uploadNote() call
Completed(call, kind, uploads, res, copied) ==
  LET after == AfterShare(res)
  IN [kind |-> kind, doc |-> call.doc, target |-> call.target,
      argForce |-> call.argForce, forceUpload |-> call.forceUpload,
      forceClipboard |-> call.forceClipboard,
      current |-> call.current, prev |-> call.prev, uploads |-> uploads,
      thrown |-> res.thrown, notified |-> after.notified,
      statusShown |-> after.statusShown, outcome |-> after.outcome,
      rejectedWith |-> after.rejectedWith, copied |-> copied,
      slot |-> call.slot, shareCalls |-> call.shareCalls,
      overlap |-> call.overlap, written |-> <<>>]

\* the outcome of the call that completed right before this one starts, when
\* it was an unforced call on the same document and no call is in flight
Previous(doc) ==
  IF /\ \A q \in AllProcs : ops[q].pc = "idle"
     /\ justDone.kind # "none"
     /\ justDone.doc = doc
     /\ ~justDone.argForce
  THEN justDone.kind
  ELSE "none"

\* what a copyShareLink(file) call did: wrote text to the clipboard, or
\* called uploadNote(forceUpload, forceClipboard) uploadCalls times
NoCopy ==
  [via |-> "none", file |-> NoPath, text |-> <<>>, uploadCalls |-> 0,
   forceUpload |-> FALSE, forceClipboard |-> FALSE]
ViaClipboard(file, text) ==
  [via |-> "clipboard", file |-> file, text |-> text, uploadCalls |-> 0,
   forceUpload |-> FALSE, forceClipboard |-> FALSE]
ViaUpload(file, forceUpload, forceClipboard) ==
  [via |-> "upload", file |-> file, text |-> <<>>, uploadCalls |-> 1,
   forceUpload |-> forceUpload, forceClipboard |-> forceClipboard]

\* mutant: a call waits while another call on the same document is in flight
uploadNoteSerialized(p, forceUpload, forceClipboard, target) ==
  LET note == PrepareNote(active, forceUpload, forceClipboard)
      rec == ReadRecord(frontmatter, updated, note.doc)
      call == [pc |-> "sharing", doc |-> note.doc, target |-> target,
               argForce |-> forceUpload, forceUpload |-> note.isForceUpload,
               forceClipboard |-> note.isForceClipboard, recId |-> rec.id,
               current |-> (rec.exists /\ mtime[note.doc] <= rec.updated),
               prev |-> Previous(note.doc), slot |-> p, shareCalls |-> 1,
               overlap |-> \E q \in AllProcs \ {p} :
                             ops[q].pc = "sharing" /\ ops[q].doc = note.doc]
  IN /\ ops[p].pc = "idle"
     /\ \A q \in AllProcs : ops[q].pc = "sharing" => ops[q].doc # note.doc
     /\ justCopy' = IF target = NoPath THEN NoCopy
                    ELSE ViaUpload(target, forceUpload, forceClipboard)
     /\ IF ShouldSkip(note, rec, mtime[note.doc])
        THEN /\ clipboard' = IF note.isForceClipboard THEN rec.link ELSE clipboard
             /\ justDone' = Completed(call, "skipped", 0, ShareOk,
                                      IF note.isForceClipboard THEN rec.link ELSE <<>>)
             /\ UNCHANGED ops
        ELSE /\ ops' = [ops EXCEPT ![p] = call]
             /\ justDone' = NoCall
             /\ UNCHANGED clipboard
     /\ UNCHANGED <<docVars, active, remoteIds, reconVars, settingsVars>>

\* uploadNote(forceUpload, forceClipboard) in slot p, up to the first
\* suspension of share(): either the upload is skipped and the call completes,
\* or the upload request is issued and the call waits for the backend
uploadNote(p, forceUpload, forceClipboard, target) ==
  LET note == PrepareNote(active, forceUpload, forceClipboard)
      rec == ReadRecord(frontmatter, updated, note.doc)
      call == [pc |-> "sharing", doc |-> note.doc, target |-> target,
               argForce |-> forceUpload, forceUpload |-> note.isForceUpload,
               forceClipboard |-> note.isForceClipboard, recId |-> rec.id,
               current |-> (rec.exists /\ mtime[note.doc] <= rec.updated),
               prev |-> Previous(note.doc), slot |-> p, shareCalls |-> 1,
               overlap |-> \E q \in AllProcs \ {p} :
                             ops[q].pc = "sharing" /\ ops[q].doc = note.doc]
  IN /\ ops[p].pc = "idle"
     /\ justCopy' = IF target = NoPath THEN NoCopy
                    ELSE ViaUpload(target, forceUpload, forceClipboard)
     /\ IF ShouldSkip(note, rec, mtime[note.doc])
        THEN /\ clipboard' = IF note.isForceClipboard THEN rec.link ELSE clipboard
             /\ justDone' = Completed(call, "skipped", 0, ShareOk,
                                      IF note.isForceClipboard THEN rec.link ELSE <<>>)
             /\ UNCHANGED ops
        ELSE /\ ops' = [ops EXCEPT ![p] = call]
             /\ justDone' = NoCall
             /\ UNCHANGED clipboard
     /\ UNCHANGED <<docVars, active, remoteIds, reconVars, settingsVars>>

\* command 'share-note'
ShareCommand == \E p \in Procs : uploadNote(p, FALSE, FALSE, NoPath)

\* command 'force-upload'
ForceUploadCommand == \E p \in Procs : uploadNote(p, TRUE, FALSE, NoPath)

\* mutant: the file is shared again whether it holds a link or not
copyShareLinkAlwaysShare(p, file) == uploadNote(p, FALSE, TRUE, file)

\* copyShareLink(file), reached from the file menu item of any markdown file
copyShareLink(p, file) ==
  LET shareLink == frontmatter[file]
  IN IF Truthy(shareLink)
     THEN /\ clipboard' = shareLink.link
          /\ justDone' = NoCall
          /\ justCopy' = ViaClipboard(file, shareLink.link)
          /\ UNCHANGED <<docVars, active, remoteIds, ops, reconVars, settingsVars>>
     ELSE uploadNote(p, FALSE, TRUE, file)

FileMenuCopy == \E p \in Procs, file \in DOMAIN frontmatter : copyShareLink(p, file)

\* mutant: a call whose share() has returned calls share() once more
SlotAfterShareRetry(call) ==
  IF call.shareCalls < 2 THEN [call EXCEPT !.shareCalls = 2] ELSE IdleOp

\* uploadNote after await note.share(): there is no loop around the call,
\* the invocation ends and its slot is free
SlotAfterShare(call) == IdleOp

\* the backend answers the upload of slot p with success
ShareReturns(p) ==
    LET call == ops[p]
        id == IF call.recId # Absent THEN call.recId ELSE NextId(remoteIds)
        link == LinkFor(id)
    IN /\ call.pc = "sharing"
       /\ call.recId = Absent => Cardinality(remoteIds) < Len(IdSeq)
       /\ remoteIds' = remoteIds \cup {id}
       /\ frontmatter' = MetadataAfterShare(frontmatter, call.doc, ShareOk, id)
       /\ updated' = [updated EXCEPT ![call.doc] = now]
       /\ clipboard' = IF call.forceClipboard THEN link ELSE clipboard
       /\ justDone' = [Completed(call, "ok", 1, ShareOk,
                                 IF call.forceClipboard THEN link ELSE <<>>)
                         EXCEPT !.written = link]
       /\ ops' = [ops EXCEPT ![p] = SlotAfterShare(call)]
       /\ justCopy' = NoCopy
       /\ UNCHANGED <<mtime, now, active, reconVars, settingsVars>>

ShareSucceeds == \E p \in Procs : ShareReturns(p)

\* the upload of slot p fails and share() rejects with e
ShareRejects(p) ==
  \E e \in Thrown, shown \in BOOLEAN :
    LET call == ops[p]
        res == ShareThrew(e, shown)
    IN /\ call.pc = "sharing"
       /\ frontmatter' = MetadataAfterShare(frontmatter, call.doc, res, Absent)
       /\ justDone' = Completed(call, "failed", 1, res, <<>>)
       /\ ops' = [ops EXCEPT ![p] = SlotAfterShare(call)]
       /\ justCopy' = NoCopy
       /\ UNCHANGED <<updated, mtime, now, active, remoteIds, clipboard, reconVars, settingsVars>>

ShareFails == \E p \in Procs : ShareRejects(p)

\* the user changes the content of the document open in the editor
EditDocument ==
    /\ now < MaxClock
    /\ now' = now + 1
    /\ mtime' = [mtime EXCEPT ![active] = now + 1]
    /\ justDone' = NoCall
    /\ justCopy' = NoCopy
    /\ UNCHANGED <<frontmatter, updated, active, remoteIds, clipboard, ops, reconVars, settingsVars>>

\* the user opens another document
OpenDocument ==
  \E f \in DOMAIN frontmatter :
    /\ f # active
    /\ active' = f
    /\ justDone' = NoCall
    /\ justCopy' = NoCopy
    /\ UNCHANGED <<docVars, remoteIds, clipboard, ops, reconVars, settingsVars>>

Init ==
  /\ frontmatter \in [UploadVault -> {NoLinkField, LinkField(<<"garbage">>)}]
  /\ updated = [f \in UploadVault |-> 0]
  /\ mtime = [f \in UploadVault |-> 1]
  /\ now = 1
  /\ active \in UploadVault
  /\ remoteIds = {}
  /\ clipboard = <<>>
  /\ ops = [p \in AllProcs |-> IdleOp]
  /\ justDone = NoCall
  /\ justCopy = NoCopy
  /\ sharedNotes = <<>>
  /\ received = <<>>
  /\ notesCall = "none"
  /\ settings = LoadedSettings
  /\ stored = Saved(LoadedSettings)
  /\ loaded = TRUE
  /\ apikeyEl = NoApikeyEl
  /\ justLoaded = NoLoad
  /\ justHandled = NoDelivery

Next ==
  \/ ShareCommand
  \/ ForceUploadCommand
  \/ FileMenuCopy
  \/ ShareSucceeds
  \/ ShareFails
  \/ EditDocument
  \/ OpenDocument

Spec == Init /\ [][Next]_vars

\* The same commands with two invocation slots: a second call may start
\* while the first is suspended in share(). The active document and the
\* content stay as they are, so that both calls are on the same document.
RaceShareCommand == \E p \in AllProcs : uploadNote(p, FALSE, FALSE, NoPath)

RaceForceUploadCommand == \E p \in AllProcs : uploadNote(p, TRUE, FALSE, NoPath)

RaceFileMenuCopy ==
  \E p \in AllProcs, file \in DOMAIN frontmatter : copyShareLink(p, file)

RaceShareSucceeds == \E p \in AllProcs : ShareReturns(p)

RaceShareFails == \E p \in AllProcs : ShareRejects(p)

NextRace ==
  \/ RaceShareCommand
  \/ RaceForceUploadCommand
  \/ RaceFileMenuCopy
  \/ RaceShareSucceeds
  \/ RaceShareFails

SpecRace == Init /\ [][NextRace]_vars

\* ------------------------------------------- claims on the upload side

C4_StatusHiddenOnEveryExit ==
  justDone.kind # "none" => ~justDone.statusShown

\* C5: the document handed to share() by copyShareLink(file) is the file the
\* menu action was invoked on, whatever document is active.
C5_SharesTheMenuFile ==
  /\ \A p \in AllProcs :
       (ops[p].pc = "sharing" /\ ops[p].target # NoPath) => ops[p].doc = ops[p].target
  /\ (justDone.kind # "none" /\ justDone.target # NoPath) => justDone.doc = justDone.target

\* network uploads issued by a completed call of the given kind
UploadsOf(kind) == IF kind \in {"ok", "failed"} THEN 1 ELSE 0

\* C6 as stated: two unforced share actions in succession on a document with
\* unchanged content issue at most one network upload in total.
C6_AsStated ==
  (justDone.kind # "none" /\ ~justDone.argForce /\ justDone.prev # "none") =>
    UploadsOf(justDone.prev) + justDone.uploads <= 1

\* C6 amended: when an unforced share action on a document succeeded or found
\* the stored record current, a second unforced share action in succession
\* with unchanged content issues no network upload and reuses the stored
\* link (it is what the second action copies); after a failed first action
\* no link is stored and the second uploads again.
C6_Idempotence ==
  (justDone.kind # "none" /\ ~justDone.argForce) =>
    /\ justDone.prev \in {"ok", "skipped"} =>
         /\ justDone.kind = "skipped"
         /\ justDone.uploads = 0
         /\ ReadRecord(frontmatter, updated, justDone.doc).exists
         /\ justDone.forceClipboard =>
              /\ justDone.copied = frontmatter[justDone.doc].link
              /\ clipboard = frontmatter[justDone.doc].link
    /\ justDone.prev = "failed" => justDone.uploads = 1

\* C6 witness: a second unforced share right after a successful one, skipped
C6_Witness ==
  /\ justDone.kind = "skipped"
  /\ justDone.prev = "ok"
  /\ ~justDone.argForce

\* C7: uploadNote(true) marks the note force-upload before share() starts and
\* the share then issues a network upload even when a current record exists;
\* uploadNote(false) never marks the note.
C7_ForceUploadOverridesSkip ==
  /\ \A p \in AllProcs :
       ops[p].pc = "sharing" => ops[p].forceUpload = ops[p].argForce
  /\ justDone.kind # "none" =>
       /\ justDone.forceUpload = justDone.argForce
       /\ justDone.argForce => justDone.uploads = 1 /\ justDone.kind # "skipped"

\* C7 witness: a forced call on a document whose record was current uploaded
C7_Witness ==
  /\ justDone.argForce
  /\ justDone.current
  /\ justDone.uploads = 1

\* C8: no document's metadata holds a share link whose id the backend has
\* not created, also after a failed remote call.
C8_WriteOnlyAfterSuccess ==
  \A f \in DOMAIN frontmatter :
    ReadRecord(frontmatter, updated, f).exists =>
      ReadRecord(frontmatter, updated, f).id \in remoteIds

\* C8 witness: a remote call failed and its document holds no record, while
\* another call had succeeded and left one
C8_Witness ==
  /\ justDone.kind = "failed"
  /\ ~ReadRecord(frontmatter, updated, justDone.doc).exists
  /\ \E f \in DOMAIN frontmatter : ReadRecord(frontmatter, updated, f).exists

\* a truthy link field that is no recognised share link
Malformed(fld) == Truthy(fld) /\ parseExistingShareUrl(fld.link) = Absent

\* C11: copyShareLink on a document whose link field holds a malformed value
\* shares the document; it does not copy the malformed value.
C11_MalformedLinkIsShared ==
  (justCopy.via # "none" /\ Malformed(frontmatter[justCopy.file])) =>
    /\ justCopy.via = "upload"
    /\ parseExistingShareUrl(clipboard) # Absent \/ clipboard = <<>>

\* C13: copyShareLink on a file that holds a non-empty link calls uploadNote
\* zero times and writes exactly the stored link to the clipboard; on a file
\* without a stored link it calls uploadNote once, with forceUpload = false
\* and forceClipboard = true.
C13_CopyOrShareOnce ==
  /\ justCopy.via = "clipboard" =>
       /\ Truthy(frontmatter[justCopy.file])
       /\ justCopy.uploadCalls = 0
       /\ justCopy.text = frontmatter[justCopy.file].link
       /\ clipboard = frontmatter[justCopy.file].link
       /\ justDone = NoCall
  /\ justCopy.via = "upload" =>
       /\ ~Truthy(frontmatter[justCopy.file])
       /\ justCopy.uploadCalls = 1
       /\ ~justCopy.forceUpload
       /\ justCopy.forceClipboard
  /\ (justCopy.via # "none" /\ ~Truthy(frontmatter[justCopy.file])) =>
       justCopy.via = "upload"

\* C13 witness: a link stored by an earlier share is copied by the menu
\* action without a new share
C13_Witness ==
  /\ justCopy.via = "clipboard"
  /\ ReadRecord(frontmatter, updated, justCopy.file).exists
  /\ clipboard = frontmatter[justCopy.file].link

\* C14: an uploadNote call calls share() exactly once, whether share()
\* succeeds or fails; when it has completed nothing of it is left in flight,
\* so a further attempt is a new invocation.
C14_NoAutomaticRetry ==
  /\ \A p \in AllProcs : ops[p].pc = "sharing" => ops[p].shareCalls = 1
  /\ justDone.kind # "none" =>
       /\ justDone.shareCalls = 1
       /\ justDone.uploads <= 1
       /\ ops[justDone.slot].pc = "idle"

\* C14 witness: a call whose share() failed has completed after one attempt
C14_Witness ==
  /\ justDone.kind = "failed"
  /\ justDone.shareCalls = 1
  /\ ops[justDone.slot].pc = "idle"

\* C15: nothing serializes the calls on one document: a free slot can start
\* a call whatever is in flight, and a call that succeeds leaves its own
\* record in the document's metadata, overwriting what a call that completed
\* before it wrote (last write wins).
C15_NoSerializationLastWriteWins ==
  /\ \A p \in AllProcs :
       ops[p].pc = "idle" => ENABLED uploadNote(p, FALSE, FALSE, NoPath)
  /\ justDone.kind = "ok" =>
       frontmatter[justDone.doc] = LinkField(justDone.written)

\* C15 witness: two calls on one document were in flight together, both have
\* completed, each created a remote record, and the document holds the
\* record of the one that completed last
C15_Witness ==
  /\ justDone.kind = "ok"
  /\ justDone.overlap
  /\ \A p \in AllProcs : ops[p].pc = "idle"
  /\ Cardinality(remoteIds) = 2
  /\ \A f \in DOMAIN frontmatter \ {justDone.doc} :
       ~ReadRecord(frontmatter, updated, f).exists
  /\ frontmatter[justDone.doc] = LinkField(LinkFor(IdSeq[2]))

\* the application loads the plugin (first start, restart, or reload)
Onload ==
  \E seed \in Seeds :
    LET r == onload(stored, seed)
    IN /\ settings' = r.settings
       /\ stored' = r.stored
       /\ loaded' = TRUE
       /\ apikeyEl' = NoApikeyEl
       /\ justLoaded' = [ran |-> TRUE, minted |-> r.minted, seed |-> seed]
       /\ justHandled' = NoDelivery
       /\ UNCHANGED <<docVars, uploadVars, reconVars>>

\* the user opens the plugin's settings tab
DisplaySettings ==
  /\ loaded
  /\ apikeyEl' = ApikeyEl(settings.apiKey)
  /\ justLoaded' = NoLoad
  /\ justHandled' = NoDelivery
  /\ UNCHANGED <<settings, stored, loaded, docVars, uploadVars, reconVars>>

\* the host delivers an obsidian://share-note URI to the registered handler
ProtocolHandler ==
  \E data \in ProtocolData :
    LET r == handler(data, settings, stored, apikeyEl)
    IN /\ loaded
       /\ settings' = r.settings
       /\ stored' = r.stored
       /\ apikeyEl' = r.el
       /\ justHandled' = [ran |-> TRUE, action |-> data.action, key |-> data.key,
                          saved |-> r.saved, before |-> settings,
                          beforeDisk |-> stored, elExisted |-> apikeyEl.exists]
       /\ justLoaded' = NoLoad
       /\ UNCHANGED <<loaded, docVars, uploadVars, reconVars>>

\* a fresh installation: nothing on disk, the plugin not yet loaded
InitSettings ==
  /\ frontmatter = [f \in UploadVault |-> NoLinkField]
  /\ updated = [f \in UploadVault |-> 0]
  /\ mtime = [f \in UploadVault |-> 1]
  /\ now = 1
  /\ active = Paths[1]
  /\ remoteIds = {}
  /\ clipboard = <<>>
  /\ ops = [p \in AllProcs |-> IdleOp]
  /\ justDone = NoCall
  /\ justCopy = NoCopy
  /\ sharedNotes = <<>>
  /\ received = <<>>
  /\ notesCall = "none"
  /\ settings = DefaultSettings
  /\ stored = NoData
  /\ loaded = FALSE
  /\ apikeyEl = NoApikeyEl
  /\ justLoaded = NoLoad
  /\ justHandled = NoDelivery

NextSettings == Onload \/ DisplaySettings \/ ProtocolHandler

SpecSettings == InitSettings /\ [][NextSettings]_vars

\* C16: once the data on disk holds a uid no step changes it, and a loaded
\* plugin runs with the uid that is on disk.
C16_UidMintedOnce ==
  [][/\ (stored.has /\ stored.uid # <<>>) => stored'.uid = stored.uid
     /\ loaded' => (settings'.uid # <<>> /\ settings'.uid = stored'.uid)]_vars

\* C16 witness: a load that found a uid minted from another seed kept it
C16_Witness ==
  /\ justLoaded.ran
  /\ ~justLoaded.minted
  /\ settings.uid # <<>>
  /\ settings.uid # hash(justLoaded.seed)
  /\ stored.uid = settings.uid

\* C17: a delivery with action 'share-note' and a non-empty key leaves that
\* key in settings.apiKey and on disk, in every state of the plugin; any
\* other delivery changes no setting and saves nothing.
C17_KeyStoredWheneverDelivered ==
  justHandled.ran =>
    IF justHandled.action = "share-note" /\ justHandled.key # <<>>
    THEN /\ settings.apiKey = justHandled.key
         /\ stored.has /\ stored.apiKey = justHandled.key
    ELSE /\ ~justHandled.saved
         /\ settings = justHandled.before
         /\ stored = justHandled.beforeDisk

\* ------------------------------------------------ NoteManagement.getNotes

\* what this.plugin.api.get('/v1/account/notes') may do: resolve or reject
FetchError == [ok |-> FALSE, items |-> <<>>]
FetchOk(items) == [ok |-> TRUE, items |-> items]

\* sharedNotes.find(x => x.id === id): index of the first match, 0 if none
FindRow(notes, id) ==
  IF \E i \in 1..Len(notes) : notes[i].id = id
  THEN CHOOSE i \in 1..Len(notes) :
         notes[i].id = id /\ \A j \in 1..(i - 1) : notes[j].id # id
  ELSE 0

\* mutant: every row with the id is annotated, not only the one find() gives
ScanFileAll(notes, fm, file) ==
  LET shareLink == fm[file]
      parsed == parseExistingShareUrl(shareLink.link)
  IN IF Truthy(shareLink) /\ parsed # Absent
     THEN [i \in 1..Len(notes) |->
             IF notes[i].id = parsed THEN [notes[i] EXCEPT !.path = file]
             ELSE notes[i]]
     ELSE notes

\* mutant: the matched row is rebuilt from the local document alone
ScanFileRebuild(notes, fm, file) ==
  LET shareLink == fm[file]
      parsed == parseExistingShareUrl(shareLink.link)
      row == FindRow(notes, parsed)
  IN IF Truthy(shareLink) /\ parsed # Absent /\ row # 0
     THEN [notes EXCEPT ![row] = [id |-> parsed, updated |-> "", path |-> file]]
     ELSE notes

\* mutant: a document whose id is not in the list is added to it as a row
ScanFileAddMissing(notes, fm, file) ==
  LET shareLink == fm[file]
      parsed == parseExistingShareUrl(shareLink.link)
      row == FindRow(notes, parsed)
  IN IF Truthy(shareLink) /\ parsed # Absent
     THEN IF row # 0
          THEN [notes EXCEPT ![row].path = file]
          ELSE Append(notes, [id |-> parsed, updated |-> "", path |-> file])
     ELSE notes

\* mutant: a row that already carries a path keeps it
ScanFileKeepFirst(notes, fm, file) ==
  LET shareLink == fm[file]
      parsed == parseExistingShareUrl(shareLink.link)
      row == FindRow(notes, parsed)
  IN IF Truthy(shareLink) /\ parsed # Absent /\ row # 0
     THEN IF notes[row].path = NoPath
          THEN [notes EXCEPT ![row].path = file]
          ELSE notes
     ELSE notes

\* the body of the forEach callback for one file
ScanFile(notes, fm, file) ==
  LET shareLink == fm[file]
  IN IF Truthy(shareLink)
     THEN LET parsed == parseExistingShareUrl(shareLink.link)
          IN IF parsed # Absent
             THEN LET row == FindRow(notes, parsed)
                  IN IF row # 0
                     THEN [notes EXCEPT ![row].path = file]
                     ELSE notes
             ELSE notes
     ELSE notes

\* mutant: a link that does not parse ends the scan (the files after it
\* are never looked at)
RECURSIVE ScanFilesAbort(_, _, _)
ScanFilesAbort(notes, fm, n) ==
  IF n = 0 THEN notes
  ELSE IF \E k \in 1..n : /\ Truthy(fm[getMarkdownFiles(fm)[k]])
                          /\ parseExistingShareUrl(fm[getMarkdownFiles(fm)[k]].link) = Absent
       THEN ScanFilesAbort(notes, fm, n - 1)
       ELSE ScanFile(ScanFilesAbort(notes, fm, n - 1), fm, getMarkdownFiles(fm)[n])

\* app.vault.getMarkdownFiles().forEach(...) over the first n files
RECURSIVE ScanFiles(_, _, _)
ScanFiles(notes, fm, n) ==
  IF n = 0 THEN notes
  ELSE ScanFile(ScanFiles(notes, fm, n - 1), fm, getMarkdownFiles(fm)[n])

\* mutant: no try/catch around the fetch
getNotesNoCatch(res, fm) ==
  IF res.ok
  THEN [raised |-> FALSE, value |-> ScanFiles(res.items, fm, Len(getMarkdownFiles(fm)))]
  ELSE [raised |-> TRUE, value |-> <<>>]

\* getNotes(): sharedNotes starts as [], the try block fetches and scans,
\* the catch block logs; sharedNotes is returned either way
getNotes(res, fm) ==
  IF res.ok
  THEN [raised |-> FALSE, value |-> ScanFiles(res.items, fm, Len(getMarkdownFiles(fm)))]
  ELSE [raised |-> FALSE, value |-> <<>>]

InitRecon ==
  /\ frontmatter \in [ReconVault -> LinkFields]
  /\ updated = [f \in ReconVault |-> 0]
  /\ mtime = [f \in ReconVault |-> 1]
  /\ now = 1
  /\ active = Paths[1]
  /\ remoteIds = {}
  /\ clipboard = <<>>
  /\ ops = [p \in AllProcs |-> IdleOp]
  /\ justDone = NoCall
  /\ justCopy = NoCopy
  /\ sharedNotes = <<>>
  /\ received = <<>>
  /\ notesCall = "none"
  /\ settings = LoadedSettings
  /\ stored = Saved(LoadedSettings)
  /\ loaded = TRUE
  /\ apikeyEl = NoApikeyEl
  /\ justLoaded = NoLoad
  /\ justHandled = NoDelivery

\* a call of getNotes() whose fetch answers res
CallGetNotes(res) ==
  LET r == getNotes(res, frontmatter)
  IN /\ received' = res.items
     /\ sharedNotes' = r.value
     /\ notesCall' = IF r.raised THEN "raised" ELSE IF res.ok THEN "ok" ELSE "failed"
     /\ UNCHANGED <<docVars, uploadVars, settingsVars>>

GetNotesOk == \E items \in Responses : CallGetNotes(FetchOk(items))

GetNotesFail == CallGetNotes(FetchError)

NextRecon == GetNotesOk \/ GetNotesFail

SpecRecon == InitRecon /\ [][NextRecon]_vars

\* ------------------------------------------------------------- claims

\* the documents whose link field parses to id
DocsFor(id) ==
  {f \in DOMAIN frontmatter : Truthy(frontmatter[f]) /\ parseExistingShareUrl(frontmatter[f].link) = id}

\* C1 as stated: after getNotes() an item carries a path if and only if some
\* document's link parses to the item's id, and then the path is the path of
\* such a document.
C1_AsStated ==
  notesCall = "ok" =>
    \A i \in 1..Len(sharedNotes) :
      /\ (sharedNotes[i].path # NoPath) <=> (DocsFor(sharedNotes[i].id) # {})
      /\ sharedNotes[i].path # NoPath => sharedNotes[i].path \in DocsFor(sharedNotes[i].id)

\* C1 amended: after getNotes() an item carries a path if and only if it is
\* the first item of the list with its id and some document's link parses to
\* that id; the path is then the path of such a document. Every other item
\* is returned with path absent.
C1_Reconciliation ==
  notesCall = "ok" =>
    \A i \in 1..Len(sharedNotes) :
      /\ (sharedNotes[i].path # NoPath) <=>
            /\ DocsFor(sharedNotes[i].id) # {}
            /\ \A j \in 1..(i - 1) : sharedNotes[j].id # sharedNotes[i].id
      /\ sharedNotes[i].path # NoPath => sharedNotes[i].path \in DocsFor(sharedNotes[i].id)

\* C1 witness: a returned list where one item is matched by a document and
\* carries its path while another item is matched by none and has no path
C1_Witness ==
  /\ notesCall = "ok"
  /\ \E i, j \in 1..Len(sharedNotes) :
       /\ sharedNotes[i].path \in DocsFor(sharedNotes[i].id)
       /\ DocsFor(sharedNotes[j].id) = {}
       /\ sharedNotes[j].path = NoPath

\* C12: getNotes() returns the remote items the backend sent, as many and in
\* the same order (the same id at every position), whatever the documents
\* hold.
C12_SameItemsSameOrder ==
  notesCall = "ok" =>
    /\ Len(sharedNotes) = Len(received)
    /\ \A i \in 1..Len(received) : sharedNotes[i].id = received[i].id

\* C12 witness: two items are returned in the backend's order although the
\* only matched one is the second, and a document links to an id that is
\* not in the list
C12_Witness ==
  /\ notesCall = "ok"
  /\ Len(sharedNotes) = 2
  /\ sharedNotes[1].id # sharedNotes[2].id
  /\ sharedNotes[1].path = NoPath
  /\ sharedNotes[2].path # NoPath
  /\ \E id \in Ids :
       /\ DocsFor(id) # {}
       /\ \A i \in 1..Len(sharedNotes) : sharedNotes[i].id # id

\* the position of a path in the vault's iteration order
PathIndex(path) == CHOOSE k \in 1..Len(Paths) : Paths[k] = path

\* the document of S that the scan visits last
LastDoc(S) == CHOOSE f \in S : \A g \in S : PathIndex(g) <= PathIndex(f)

\* C18: when several documents hold links to one id, the item carries the
\* path of the last of them in vault order; when the list repeats an id,
\* only the first item with it is ever annotated.
C18_LastDocumentFirstItem ==
  notesCall = "ok" =>
    \A i \in 1..Len(sharedNotes) :
      /\ sharedNotes[i].path # NoPath =>
           /\ DocsFor(sharedNotes[i].id) # {}
           /\ sharedNotes[i].path = LastDoc(DocsFor(sharedNotes[i].id))
      /\ (\E j \in 1..(i - 1) : sharedNotes[j].id = sharedNotes[i].id) =>
           sharedNotes[i].path = NoPath

\* C18 witness: two documents link to the id of two items; the first item
\* carries the later document's path and the second item none
C18_Witness ==
  /\ notesCall = "ok"
  /\ Len(sharedNotes) = 2
  /\ sharedNotes[1].id = sharedNotes[2].id
  /\ Cardinality(DocsFor(sharedNotes[1].id)) = 2
  /\ sharedNotes[1].path = LastDoc(DocsFor(sharedNotes[1].id))
  /\ sharedNotes[2].path = NoPath

\* C2: when the fetch of /v1/account/notes fails, getNotes() returns the
\* empty sequence and raises nothing to its caller.
C2_FetchFailureRecovered ==
  /\ notesCall # "raised"
  /\ notesCall = "failed" => sharedNotes = <<>>

\* C2 witness: a call of getNotes() whose fetch failed has returned
C2_Witness == notesCall = "failed" /\ sharedNotes = <<>>

\* C9 as stated: getNotes() writes no document metadata and leaves the
\* received RemoteItem records as the backend sent them.
C9_AsStated ==
  [][frontmatter' = frontmatter /\ sharedNotes' = received']_vars

\* the items of a and b agree in number, order, id and updated
SameButPath(a, b) ==
  /\ Len(a) = Len(b)
  /\ \A i \in 1..Len(a) : a[i].id = b[i].id /\ a[i].updated = b[i].updated

\* C9 amended: getNotes() writes no document metadata, and of the received
\* RemoteItem records it changes nothing but the path field, which it sets
\* in place on the matched items.
C9_OnlyPathSet ==
  [][frontmatter' = frontmatter /\ SameButPath(sharedNotes', received')]_vars

\* C9 witness: a call that annotated an item of a document-matched id
C9_Witness ==
  /\ notesCall = "ok"
  /\ \E i \in 1..Len(sharedNotes) :
       sharedNotes[i].path # NoPath /\ received[i].path = NoPath

StripMalformed(fm) ==
  [f \in DOMAIN fm |-> IF Malformed(fm[f]) THEN NoLinkField ELSE fm[f]]

\* C10: the result of getNotes() is the result it would give if every
\* document with a malformed link field had no link field at all, the
\* annotations of the documents scanned after it included; nothing is raised.
C10_MalformedIgnored ==
  /\ notesCall # "raised"
  /\ notesCall = "ok" =>
       sharedNotes = ScanFiles(received, StripMalformed(frontmatter), Len(getMarkdownFiles(frontmatter)))

\* C10 witness: a document with a malformed link is scanned before a
\* document whose link matches an item, and that item carries the later path
C10_Witness ==
  /\ notesCall = "ok"
  /\ \E k \in 1..NumFiles, n \in 1..NumFiles :
       /\ k < n
       /\ Malformed(frontmatter[Paths[k]])
       /\ \E i \in 1..Len(sharedNotes) : sharedNotes[i].path = Paths[n]

=============================================================================
